---- MODULE Spec2Model ----
(***************************************************************************)
(* A model of repo_support/gen_cherrypick_prs.py: the backport             *)
(* orchestration run (main) as a sequential state machine.  Every external *)
(* process invocation (run) and every operator prompt (confirm) is one     *)
(* step whose outcome is chosen by the environment.                        *)
(***************************************************************************)
EXTENDS Integers, Sequences, FiniteSets, TLC

\* ------------------------------------------------------------------ bounds
\* Longest list of references on the command line / longest label listing.
MaxPRs == 2

\* Longest list of references given to parse_pr_numbers on its own.
MaxRefs == 3

\* Most pull requests the first search of find_backport_infos returns.
MaxHits == 2

\* ------------------------------------------------------------------ values
\* The instants at which change requests were merged: two of them give both an
\* order and a tie between any two items.  NoTime stands for a missing mergedAt
\* (None, or datetime.min as a sort key) and precedes every instant.
MergeTimes == {1, 2}
NoTime == 0

\* A Python str is a sequence of one-character strings; <<>> is "".
Digits == {"0", "1", "2", "3", "4", "5", "6", "7", "8", "9"}

DigitVal(c) ==
  CASE c = "0" -> 0 [] c = "1" -> 1 [] c = "2" -> 2 [] c = "3" -> 3 [] c = "4" -> 4
    [] c = "5" -> 5 [] c = "6" -> 6 [] c = "7" -> 7 [] c = "8" -> 8 [] c = "9" -> 9

DigitChar(n) ==
  CASE n = 0 -> "0" [] n = 1 -> "1" [] n = 2 -> "2" [] n = 3 -> "3" [] n = 4 -> "4"
    [] n = 5 -> "5" [] n = 6 -> "6" [] n = 7 -> "7" [] n = 8 -> "8" [] n = 9 -> "9"

\* str(n) / f"{n}" of a non-negative int.
RECURSIVE Decimal(_)
Decimal(n) ==
  IF n < 10 THEN <<DigitChar(n)>> ELSE Append(Decimal(n \div 10), DigitChar(n % 10))

PullMarker == <<"/", "p", "u", "l", "l", "/">>

\* The exit status of the process: <<>> while it runs, <<n>> once it ended.
Running == <<>>

\* PRInfo.state / BackportInfo.state as the hosting CLI reports them.
PRStates == {"MERGED", "OPEN", "CLOSED"}

\* ------------------------------------------------------------------ parse_pr_numbers
\* int(m.group(1)) of a run of digit characters.
RECURSIVE ToInt(_)
ToInt(ds) ==
  IF ds = <<>> THEN 0
  ELSE 10 * ToInt(SubSeq(ds, 1, Len(ds) - 1)) + DigitVal(ds[Len(ds)])

\* "/pull/" in s
HasPullMarker(s) ==
  \E p \in 1..Len(s) :
    /\ p + Len(PullMarker) - 1 <= Len(s)
    /\ SubSeq(s, p, p + Len(PullMarker) - 1) = PullMarker

\* re.search(r"/pull/(\d+)", s): the leftmost "/pull/" that a digit follows, and
\* the longest run of digits after it; <<>> when there is no match.
PullDigits(s) ==
  LET starts == {p \in 1..Len(s) :
                   /\ p + Len(PullMarker) <= Len(s)
                   /\ SubSeq(s, p, p + Len(PullMarker) - 1) = PullMarker
                   /\ s[p + Len(PullMarker)] \in Digits}
  IN IF starts = {} THEN <<>>
     ELSE LET p == CHOOSE q \in starts : \A r \in starts : q <= r
              b == p + Len(PullMarker)
              e == CHOOSE q \in b..Len(s) :
                     /\ \A r \in b..q : s[r] \in Digits
                     /\ (q = Len(s) \/ s[q + 1] \notin Digits)
          IN SubSeq(s, b, e)

\* s.lstrip("#")
RECURSIVE LStripHash(_)
LStripHash(s) ==
  IF s # <<>> /\ s[1] = "#" THEN LStripHash(Tail(s)) ELSE s

\* re.search(r"(\d+)$", t): the longest run of digits that ends t; <<>> when none.
TrailingDigits(t) ==
  LET b == CHOOSE q \in 1..(Len(t) + 1) :
             /\ \A r \in q..Len(t) : t[r] \in Digits
             /\ (q = 1 \/ t[q - 1] \notin Digits)
  IN SubSeq(t, b, Len(t))

\* The digits matched for one reference (<<>>: "Could not parse PR number").
RefDigits(s) ==
  IF HasPullMarker(s) THEN PullDigits(s) ELSE TrailingDigits(LStripHash(s))

\* Dedup while preserving order.
RECURSIVE Dedup(_)
Dedup(nums) ==
  IF nums = <<>> THEN <<>>
  ELSE LET front == Dedup(SubSeq(nums, 1, Len(nums) - 1))
           n == nums[Len(nums)]
       IN IF \E j \in 1..Len(front) : front[j] = n THEN front ELSE Append(front, n)

ParseOk(pr_args) == \A j \in 1..Len(pr_args) : RefDigits(pr_args[j]) # <<>>

\* The numbers as they come, repeats included.
parse_pr_numbers_with_repeats(pr_args) ==
  [j \in 1..Len(pr_args) |-> ToInt(RefDigits(pr_args[j]))]

parse_pr_numbers(pr_args) ==
  Dedup([j \in 1..Len(pr_args) |-> ToInt(RefDigits(pr_args[j]))])

\* ------------------------------------------------------------------ pull request title
\* re.search(r"\(#\d+\)\s*$", base_title) on a title without trailing white
\* space: it ends in "(#", one digit or more, ")" -- whatever the number is.
EndsInMarker(base_title) ==
  /\ base_title # <<>>
  /\ base_title[Len(base_title)] = ")"
  /\ \E b \in 1..(Len(base_title) - 3) :
       /\ base_title[b] = "("
       /\ base_title[b + 1] = "#"
       /\ \A r \in (b + 2)..(Len(base_title) - 1) : base_title[r] \in Digits

\* Lines 575-579: pr_title from the stripped commit subject.
pr_title(base_title, number) ==
  IF EndsInMarker(base_title) THEN base_title
  ELSE base_title \o <<" ", "(", "#">> \o Decimal(number) \o <<")">>

\* ------------------------------------------------------------------ sorting
\* list.sort(key=...) is stable: an element goes after every element with a
\* smaller key and after the earlier elements with an equal key.
AscRank(keys, j) ==
  Cardinality({k \in 1..Len(keys) : keys[k] < keys[j]})
    + Cardinality({k \in 1..(j - 1) : keys[k] = keys[j]}) + 1

\* sorted(..., reverse=True) keeps the original order of equal keys as well.
DescRank(keys, j) ==
  Cardinality({k \in 1..Len(keys) : keys[k] > keys[j]})
    + Cardinality({k \in 1..(j - 1) : keys[k] = keys[j]}) + 1

SortAsc(s, keys) ==
  [r \in 1..Len(s) |-> s[CHOOSE j \in 1..Len(s) : AscRank(keys, j) = r]]

SortDesc(s, keys) ==
  [r \in 1..Len(s) |-> s[CHOOSE j \in 1..Len(s) : DescRank(keys, j) = r]]

\* A sort by merge timestamp that is not stable: equal keys come out reversed.
SortByMergedAt_unstable(s) ==
  LET keys == [j \in 1..Len(s) |-> s[j].merged_at]
      rank(j) == Cardinality({k \in 1..Len(s) : keys[k] < keys[j]})
                   + Cardinality({k \in (j + 1)..Len(s) : keys[k] = keys[j]}) + 1
  IN [r \in 1..Len(s) |-> s[CHOOSE j \in 1..Len(s) : rank(j) = r]]

\* infos.sort(key=lambda x: x.merged_at)
SortByMergedAt(s) == SortAsc(s, [j \in 1..Len(s) |-> s[j].merged_at])

\* not_completed.sort(key=lambda x: x.number)
SortByNumber(s) == SortAsc(s, [j \in 1..Len(s) |-> s[j].number])

\* ------------------------------------------------------------------ find_backport_infos
Range(s) == {s[j] : j \in 1..Len(s)}

\* The elements of s at the positions in keep, in order.
RECURSIVE AtPositions(_, _)
AtPositions(s, keep) ==
  IF s = <<>> THEN <<>>
  ELSE LET front == AtPositions(SubSeq(s, 1, Len(s) - 1), keep)
       IN IF Len(s) \in keep THEN Append(front, s[Len(s)]) ELSE front

RECURSIVE Flatten(_)
Flatten(ss) == IF ss = <<>> THEN <<>> ELSE Head(ss) \o Flatten(Tail(ss))

\* A pull request returned by a search is a record [number, state, mergedAt,
\* marks]: marks is the set of local criteria its title and body satisfy
\*   "ref"   rx.search(hay)            (the "PR #<id>" token)
\*   "url"   url_fragment in hay
\*   "title" title_lc in title.lower()
\*   "paren" "(#<id>)" in title
LocalCriteria == {"ref", "url", "title", "paren"}

\* Every pull request the searches return is kept.
LocalMatch_any(pr) == TRUE

LocalMatch(pr) == pr.marks \cap LocalCriteria # {}

\* items: the results of the queries in order, one entry per number (the first).
UnionByNumber(results) ==
  LET flat == Flatten(results)
  IN AtPositions(flat, {j \in 1..Len(flat) :
                          \A k \in 1..(j - 1) : flat[k].number # flat[j].number})

BackportInfo(pr) ==
  [state |-> pr.state, number |-> pr.number, merged_at |-> pr.mergedAt]

IsMergedState(m) == m.state = "MERGED"
IsOpenState(m) == m.state = "OPEN"
IsOtherState(m) == m.state \notin {"MERGED", "OPEN"}

\* The same, the merged candidates left in the order of the searches.
find_backport_infos_unsorted(results) ==
  LET items == UnionByNumber(results)
      kept == SelectSeq(items, LocalMatch)
      matches == [j \in 1..Len(kept) |-> BackportInfo(kept[j])]
  IN SelectSeq(matches, IsMergedState) \o SelectSeq(matches, IsOpenState)
       \o SelectSeq(matches, IsOtherState)

find_backport_infos(results) ==
  LET items == UnionByNumber(results)
      kept == SelectSeq(items, LocalMatch)
      matches == [j \in 1..Len(kept) |-> BackportInfo(kept[j])]
      mergedOnes == SelectSeq(matches, IsMergedState)
      merged == SortDesc(mergedOnes,
                         [j \in 1..Len(mergedOnes) |-> mergedOnes[j].merged_at])
      opened == SelectSeq(matches, IsOpenState)
      closed == SelectSeq(matches, IsOtherState)
  IN merged \o opened \o closed

\* Only an open candidate counts as active.
IsActive_open_only(bp) == bp.state = "OPEN"

\* active = [bp for bp in bps if bp.state in ("OPEN", "MERGED")]
IsActive(bp) == bp.state \in {"OPEN", "MERGED"}
Active(bps) == SelectSeq(bps, IsActive)

\* ------------------------------------------------------------------ inputs
\* A reference to pull request n in each accepted form: "n", "#n", a URL.
RefOf(n, form) ==
  CASE form = 0 -> Decimal(n)
    [] form = 1 -> <<"#">> \o Decimal(n)
    [] form = 2 -> <<"h", ":">> \o PullMarker \o Decimal(n)
    [] form = 3 -> <<"h", ":">> \o PullMarker \o Decimal(n) \o <<"/", "f">>

\* A reference no integer can be extracted from.
BadRef == <<"#", "x">>

\* References to 1..k, the forms alternating.
RefsTo(k) == [j \in 1..k |-> RefOf(j, j % 3)]

\* The command lines explored: references to 1..k, the same with the first pull
\* request named a second time in another form, and one with a bad reference.
ArgLists ==
  {RefsTo(k) : k \in 0..MaxPRs}
    \cup {Append(RefsTo(k), RefOf(1, 2)) : k \in 1..(MaxPRs - 1)}
    \cup {<<RefOf(1, 0), BadRef>>}

\* With --from-backport-label the references are parsed and then ignored.
LabelArgLists == {<<>>, <<RefOf(1, 1)>>, <<BadRef>>}

\* OWNER/REPO as <<owner, repo>>; None is <<>>.
None == <<>>
UpstreamRepo == <<"microsoft", "/", "openvmm">>
ForkRepo == <<"dev", "/", "openvmm">>

\* The URLs "git remote get-url" can print, as the pieces that
\* parse_github_owner_repo tells apart: the upstream repository over https
\* and over ssh, the operator's fork in the scp-like form, and the fork in
\* the ssh:// form.
UpstreamUrl == <<"https://github.com/", "microsoft", "/", "openvmm", ".git">>
UpstreamSshUrl == <<"git@github.com:", "microsoft", "/", "openvmm", "/">>
ForkUrl == <<"git@github.com:", "dev", "/", "openvmm", ".git">>
ForkSshUrl == <<"ssh://git@github.com/", "dev", "/", "openvmm", ".git">>

\* path.rstrip("/")
RECURSIVE RStripSlash(_)
RStripSlash(path) ==
  IF path # <<>> /\ path[Len(path)] = "/"
    THEN RStripSlash(SubSeq(path, 1, Len(path) - 1))
    ELSE path

\* OWNER/REPO of a remote URL, None for a URL of another form.
parse_github_owner_repo(url) ==
  IF url[1] \notin {"git@github.com:", "https://github.com/"} THEN None
  ELSE LET stripped == RStripSlash(Tail(url))
           path == IF stripped # <<>> /\ stripped[Len(stripped)] = ".git"
                     THEN SubSeq(stripped, 1, Len(stripped) - 1)
                     ELSE stripped
       IN IF Cardinality({j \in 1..Len(path) : path[j] = "/"}) # 1 THEN None
          ELSE path

\* The release_branch argument of the command line.
ReleaseBranch == <<"release/", "1">>

\* mergeCommit.oid of pull request n; <<>> is the empty string.
ShaOf(n) == <<"c", DigitChar(n)>>

\* What "gh pr view" can answer for a pull request.
ViewResponses == [state : PRStates, mergedAt : {NoTime} \cup MergeTimes, has_sha : BOOLEAN]

\* What "gh pr list --label" can answer: newest first, any mix of states.
LabelListings ==
  UNION {{[j \in 1..k |-> [number |-> k + 1 - j, state |-> f[j]]] :
            f \in [1..k -> PRStates]} : k \in 0..MaxPRs}

\* Pull requests on the release branch that the searches can return.
BpOpen == [number |-> 11, state |-> "OPEN", mergedAt |-> NoTime, marks |-> {"ref"}]
BpClosed == [number |-> 12, state |-> "CLOSED", mergedAt |-> NoTime, marks |-> {"url", "title"}]
BpMerged == [number |-> 13, state |-> "MERGED", mergedAt |-> 1, marks |-> {"paren"}]
BpNoise == [number |-> 14, state |-> "OPEN", mergedAt |-> NoTime, marks |-> {}]

\* The answers of the three searches of one find_backport_infos call.
SearchScenarios ==
  { << <<>>, <<>>, <<>> >>,
    << <<BpNoise>>, <<>>, <<BpNoise>> >>,
    << <<BpClosed>>, <<BpClosed>>, <<>> >>,
    << <<BpClosed, BpOpen>>, <<BpOpen>>, <<BpNoise>> >>,
    << <<>>, <<BpMerged>>, <<BpMerged>> >> }

\* The numbers that references given to parse_pr_numbers on its own name, and
\* that commit subjects carry: one, two and three digits.
RefIds == {7, 12, 123}

\* The references it is given: every form of every number, and a bad one.
RefPool == {RefOf(n, form) : n \in RefIds, form \in 0..3} \cup {BadRef}
RefLists == UNION {[1..k -> RefPool] : k \in 0..MaxRefs}

\* Commit subjects as "git show -s --format=%s" prints them and run() strips
\* them: empty, plain, ending in the "(#n)" GitHub appends on a squash merge,
\* ending in something short of it, or carrying a "(#n)" that is not at the end.
SquashSuffix(n) == <<"(", "#">> \o Decimal(n) \o <<")">>
SubjectStems == {<<"F">>, <<"R", " ">> \o SquashSuffix(7) \o <<":", "x">>}
SubjectEnds ==
  {<<>>, <<" ", "#", "7">>, <<" ", "(", "#", ")">>, <<" ", "(", "7", ")">>}
    \cup {<<" ">> \o SquashSuffix(n) : n \in RefIds}
Subjects ==
  {<<>>} \cup {SquashSuffix(n) : n \in RefIds}
    \cup {stem \o end : stem \in SubjectStems, end \in SubjectEnds}

\* Pull requests the searches of find_backport_infos on its own can return:
\* as above, two more merged ones (one later, one at the same instant), a
\* merged one without mergedAt, and number 11 once more as another search
\* reports it.
BpLater == [number |-> 15, state |-> "MERGED", mergedAt |-> 2, marks |-> {"ref"}]
BpSameTime == [number |-> 17, state |-> "MERGED", mergedAt |-> 1, marks |-> {"url"}]
BpUndated == [number |-> 16, state |-> "MERGED", mergedAt |-> NoTime, marks |-> {"title"}]
BpOpenAgain == [number |-> 11, state |-> "CLOSED", mergedAt |-> NoTime, marks |-> {}]
HitPool ==
  {BpOpen, BpClosed, BpMerged, BpNoise, BpLater, BpSameTime, BpUndated, BpOpenAgain}

\* The answers of its three searches: up to MaxHits pull requests to the
\* first, one at most to each of the others.
SearchAnswers ==
  LET first == UNION {[1..k -> HitPool] : k \in 0..MaxHits}
      other == {<<>>} \cup {<<hit>> : hit \in HitPool}
  IN {<<q1, q2, q3>> : q1 \in first, q2 \in other, q3 \in other}

\* ------------------------------------------------------------------ state
VARIABLES
  args,              \* the parsed command line (argparse namespace)
  pc,                \* the position of main
  pr_numbers,        \* parse_pr_numbers(args.prs)
  labeled,           \* the answer of gh_pr_list_label
  prj,               \* the last answer of gh_pr_view (prj, line 418; full, line 384)
  infos,             \* the completed change requests (PRInfo)
  not_completed,     \* labeled change requests that are not merged
  idx,               \* the position of the current for loop (1-based)
  base_repo,         \* the repository pull requests are created in
  push_remote_repo,  \* OWNER/REPO of the push remote, or None
  backport_map,      \* number -> find_backport_infos result
  head_branch,       \* the branch checked out (0: the operator's own)
  head_ref,          \* the head reference of the pull request being composed
  created,           \* (number, url) of the pull requests created
  calls,             \* every subprocess run and prompt so far, in order
  out,               \* the report lines printed so far
  exit_status,       \* Running, or <<status>> once the process ended
  exit_via,          \* the statement that ended the process
  probe              \* a function applied on its own: [fn, in, out]; None in a run of main

vars == <<args, pc, pr_numbers, labeled, prj, infos, not_completed, idx, base_repo,
          push_remote_repo, backport_map, head_branch, head_ref, created,
          calls, out, exit_status, exit_via, probe>>

\* One subprocess run (ok: exit status 0) or prompt (ok: the operator said yes)
\* issued for pull request pr (0: for none in particular); msg is what the
\* output of the run (the error text of a failed one) says, as far as the
\* program reads it.
Call(op, pr, ok) == [op |-> op, pr |-> pr, ok |-> ok, msg |-> ""]

\* A successful run that printed msg.
Answer(op, pr, msg) == [op |-> op, pr |-> pr, ok |-> TRUE, msg |-> msg]

\* A failed run whose error text is msg.
FailedCall(op, pr, msg) == [op |-> op, pr |-> pr, ok |-> FALSE, msg |-> msg]

Line(kind, pr) == [kind |-> kind, pr |-> pr]

PRInfo(number, merged_at, merge_sha, state) ==
  [number |-> number, merged_at |-> merged_at, merge_sha |-> merge_sha, state |-> state]

\* The command lines explored.  release_branch is None when the required
\* positional argument is missing; every other field then keeps its default.
\* A reference given along with --from-backport-label is explored with
\* --dry-run only: in that mode nothing reads pr_numbers once it is parsed.
\* --allow-dirty, which ensure_clean_worktree alone reads, is explored without
\* --force-push and --repo.
CommandLines ==
  {a \in [release_branch : {None, ReleaseBranch},
          allow_dirty : BOOLEAN, force_push : BOOLEAN,
          dry_run : BOOLEAN, from_backport_label : BOOLEAN,
          repo : {None, UpstreamRepo},
          prs : ArgLists \cup LabelArgLists] :
     /\ a.prs \in (IF a.from_backport_label THEN LabelArgLists ELSE ArgLists)
     /\ (a.from_backport_label /\ a.prs # <<>> /\ ParseOk(a.prs)) => a.dry_run
     /\ a.allow_dirty => (~a.force_push /\ a.repo = None)
     /\ a.release_branch = None =>
          /\ ~a.allow_dirty /\ ~a.force_push /\ ~a.dry_run /\ ~a.from_backport_label
          /\ a.repo = None /\ a.prs = <<>>}

Init ==
  /\ args \in CommandLines
  /\ pc = "argparse"
  /\ pr_numbers = <<>>
  /\ labeled = <<>>
  /\ prj = None
  /\ infos = <<>>
  /\ not_completed = <<>>
  /\ idx = 1
  /\ base_repo = None
  /\ push_remote_repo = None
  /\ backport_map = <<>>
  /\ head_branch = 0
  /\ head_ref = <<>>
  /\ created = <<>>
  /\ calls = <<>>
  /\ out = <<>>
  /\ exit_status = Running
  /\ exit_via = "none"
  /\ probe = None

\* The process ends: return status / raise SystemExit(message) / an uncaught
\* RuntimeError of run().  A message or a traceback ends the process with 1.
Exit(status, via) ==
  /\ pc' = "exit"
  /\ exit_status' = <<status>>
  /\ exit_via' = via

Goto(label) ==
  /\ pc' = label
  /\ UNCHANGED <<exit_status, exit_via>>

\* ------------------------------------------------------------------ main: loading
\* ap.parse_args(): a command line without the required release_branch is a
\* usage error, on which argparse ends the process with status 2.
parse_args ==
  /\ pc = "argparse"
  /\ IF args.release_branch = None THEN Exit(2, "SystemExit") ELSE Goto("start")
  /\ UNCHANGED <<probe, args, pr_numbers, labeled, prj, infos, not_completed, idx, base_repo,
                 push_remote_repo, backport_map, head_branch, head_ref, created,
                 calls, out>>

\* git status --porcelain fails, or prints nothing (clean), or the changes.
ensure_clean_worktree_unchecked ==
  /\ pc = "start"
  /\ \E status \in {"failed", "", "changes"} :
       /\ calls' = Append(calls, IF status = "failed" THEN Call("git status", 0, FALSE)
                                 ELSE Answer("git status", 0, status))
       /\ IF status = "failed" THEN Exit(1, "RuntimeError") ELSE Goto("parse")
  /\ UNCHANGED <<probe, args, pr_numbers, labeled, prj, infos, not_completed, idx, base_repo,
                 push_remote_repo, backport_map, head_branch, head_ref, created, out>>

ensure_clean_worktree ==
  /\ pc = "start"
  /\ \E status \in {"failed", "", "changes"} :
       /\ calls' = Append(calls, IF status = "failed" THEN Call("git status", 0, FALSE)
                                 ELSE Answer("git status", 0, status))
       /\ IF status = "failed" THEN Exit(1, "RuntimeError")
          ELSE IF status # "" /\ ~args.allow_dirty THEN Exit(1, "SystemExit")
          ELSE Goto("parse")
  /\ UNCHANGED <<probe, args, pr_numbers, labeled, prj, infos, not_completed, idx, base_repo,
                 push_remote_repo, backport_map, head_branch, head_ref, created, out>>

\* The references are parsed, repeated numbers kept.
ParseArgs_keep_repeats ==
  /\ pc = "parse"
  /\ IF ~args.from_backport_label /\ args.prs = <<>>
       THEN Exit(1, "SystemExit") /\ UNCHANGED pr_numbers
     ELSE IF ~ParseOk(args.prs)
       THEN Exit(1, "SystemExit") /\ UNCHANGED pr_numbers
     ELSE /\ pr_numbers' = [j \in 1..Len(args.prs) |-> ToInt(RefDigits(args.prs[j]))]
          /\ Goto(IF args.from_backport_label THEN "list_label" ELSE "load")
  /\ UNCHANGED <<probe, args, labeled, prj, infos, not_completed, idx, base_repo,
                 push_remote_repo, backport_map, head_branch, head_ref, created,
                 calls, out>>

\* Lines 363-366 without their two raise statements.
ParseArgs_lenient ==
  /\ pc = "parse"
  /\ pr_numbers' = parse_pr_numbers(args.prs)
  /\ Goto(IF args.from_backport_label THEN "list_label" ELSE "load")
  /\ UNCHANGED <<probe, args, labeled, prj, infos, not_completed, idx, base_repo,
                 push_remote_repo, backport_map, head_branch, head_ref, created,
                 calls, out>>

ParseArgs ==
  /\ pc = "parse"
  /\ IF ~args.from_backport_label /\ args.prs = <<>>
       THEN Exit(1, "SystemExit") /\ UNCHANGED pr_numbers
     ELSE IF ~ParseOk(args.prs)
       THEN Exit(1, "SystemExit") /\ UNCHANGED pr_numbers
     ELSE /\ pr_numbers' = parse_pr_numbers(args.prs)
          /\ Goto(IF args.from_backport_label THEN "list_label" ELSE "load")
  /\ UNCHANGED <<probe, args, labeled, prj, infos, not_completed, idx, base_repo,
                 push_remote_repo, backport_map, head_branch, head_ref, created,
                 calls, out>>

gh_pr_list_label ==
  /\ pc = "list_label"
  /\ \/ /\ calls' = Append(calls, Call("gh pr list --label", 0, FALSE))
        /\ Exit(1, "RuntimeError")
        /\ UNCHANGED labeled
     \/ /\ calls' = Append(calls, Call("gh pr list --label", 0, TRUE))
        /\ labeled' \in LabelListings
        /\ Goto("load_label")
  /\ UNCHANGED <<probe, args, pr_numbers, prj, infos, not_completed, idx, base_repo,
                 push_remote_repo, backport_map, head_branch, head_ref, created, out>>

\* Everything that was not closed counts as completed.
IsCompleted_not_closed(state) == state # "CLOSED"

\* if state == "MERGED" (line 383); if state != "MERGED": abort (line 421).
IsCompleted(state) == state = "MERGED"

\* extract_merge_sha(prj): mergeCommit.oid of pull request n, "" when absent.
extract_merge_sha(answer, n) == IF answer.has_sha THEN ShaOf(n) ELSE <<>>

\* The check of the merge-commit identifier is left out.
ExplicitEntryInvalid_no_sha_check(answer, n) ==
  \/ answer.state # "MERGED"
  \/ answer.mergedAt = NoTime

\* Lines 420-431: the three checks that abort the run in explicit mode.
ExplicitEntryInvalid(answer, n) ==
  \/ ~IsCompleted(answer.state)
  \/ answer.mergedAt = NoTime
  \/ extract_merge_sha(answer, n) = <<>>

\* One iteration of "for prj in labeled"; the listed entry is labeled[idx] and
\* the answer of gh_pr_view is full.
LoadLabeled ==
  /\ pc = "load_label"
  /\ idx <= Len(labeled)
  /\ LET listed == labeled[idx] IN
       IF IsCompleted(listed.state)
         THEN /\ \/ /\ calls' = Append(calls, Call("gh pr view", listed.number, FALSE))
                    /\ Exit(1, "RuntimeError")
                    /\ UNCHANGED <<prj, infos, idx>>
                 \/ /\ calls' = Append(calls, Call("gh pr view", listed.number, TRUE))
                    /\ \E full \in ViewResponses :
                         /\ full.state = listed.state
                         /\ prj' = full
                         /\ IF full.mergedAt = NoTime
                                 \/ extract_merge_sha(full, listed.number) = <<>>
                              THEN Exit(1, "SystemExit") /\ UNCHANGED <<infos, idx>>
                              ELSE /\ infos' = Append(infos,
                                        PRInfo(listed.number, full.mergedAt,
                                               extract_merge_sha(full, listed.number),
                                               listed.state))
                                   /\ idx' = idx + 1
                                   /\ Goto("load_label")
              /\ UNCHANGED not_completed
         ELSE /\ not_completed' = Append(not_completed,
                                         PRInfo(listed.number, NoTime, <<>>, listed.state))
              /\ idx' = idx + 1
              /\ Goto("load_label")
              /\ UNCHANGED <<prj, infos, calls>>
  /\ UNCHANGED <<probe, args, pr_numbers, labeled, base_repo, push_remote_repo,
                 backport_map, head_branch, head_ref, created, out>>

\* One iteration of "for n in pr_numbers".
LoadExplicit ==
  /\ pc = "load"
  /\ idx <= Len(pr_numbers)
  /\ LET n == pr_numbers[idx] IN
       \/ /\ calls' = Append(calls, Call("gh pr view", n, FALSE))
          /\ Exit(1, "RuntimeError")
          /\ UNCHANGED <<prj, infos, idx>>
       \/ /\ calls' = Append(calls, Call("gh pr view", n, TRUE))
          /\ \E answer \in ViewResponses :
               /\ prj' = answer
               /\ IF ExplicitEntryInvalid(answer, n)
                    THEN Exit(1, "SystemExit") /\ UNCHANGED <<infos, idx>>
                    ELSE /\ infos' = Append(infos,
                                            PRInfo(n, answer.mergedAt,
                                                   extract_merge_sha(answer, n),
                                                   answer.state))
                         /\ idx' = idx + 1
                         /\ Goto("load")
  /\ UNCHANGED <<probe, args, pr_numbers, labeled, not_completed, base_repo,
                 push_remote_repo, backport_map, head_branch, head_ref, created, out>>

\* The dry-run flag is not consulted: the run goes on to the fetch.
SortInfos_live ==
  /\ \/ pc = "load" /\ idx > Len(pr_numbers)
     \/ pc = "load_label" /\ idx > Len(labeled)
  /\ infos' = SortByMergedAt(infos)
  /\ not_completed' = SortByNumber(not_completed)
  /\ idx' = 1
  /\ Goto("fetch")
  /\ UNCHANGED <<probe, args, pr_numbers, labeled, prj, base_repo, push_remote_repo,
                 backport_map, head_branch, head_ref, created, calls, out>>

\* After either loop: infos.sort(...); not_completed.sort(...).
SortInfos ==
  /\ \/ pc = "load" /\ idx > Len(pr_numbers)
     \/ pc = "load_label" /\ idx > Len(labeled)
  /\ infos' = SortByMergedAt(infos)
  /\ not_completed' = SortByNumber(not_completed)
  /\ idx' = 1
  /\ Goto(IF args.dry_run THEN "dry_run" ELSE "fetch")
  /\ UNCHANGED <<probe, args, pr_numbers, labeled, prj, base_repo, push_remote_repo,
                 backport_map, head_branch, head_ref, created, calls, out>>

\* if args.dry_run: print the plan and return 0.
DryRun ==
  /\ pc = "dry_run"
  /\ out' = out \o [j \in 1..Len(infos) |-> Line("would process", infos[j].number)]
                \o [j \in 1..Len(not_completed) |->
                      Line("not completed", not_completed[j].number)]
  /\ Exit(0, "return dry-run")
  /\ UNCHANGED <<probe, args, pr_numbers, labeled, prj, infos, not_completed, idx, base_repo,
                 push_remote_repo, backport_map, head_branch, head_ref, created, calls>>

\* ------------------------------------------------------------------ main: preparation
\* run(..., check=False): a failed fetch is not noticed.
git_fetch_unchecked ==
  /\ pc = "fetch"
  /\ \E ok \in BOOLEAN : calls' = Append(calls, Call("git fetch", 0, ok))
  /\ Goto("remotes")
  /\ UNCHANGED <<probe, args, pr_numbers, labeled, prj, infos, not_completed, idx, base_repo,
                 push_remote_repo, backport_map, head_branch, head_ref, created, out>>

git_fetch ==
  /\ pc = "fetch"
  /\ \/ /\ calls' = Append(calls, Call("git fetch", 0, FALSE))
        /\ Exit(1, "RuntimeError")
     \/ /\ calls' = Append(calls, Call("git fetch", 0, TRUE))
        /\ Goto("remotes")
  /\ UNCHANGED <<probe, args, pr_numbers, labeled, prj, infos, not_completed, idx, base_repo,
                 push_remote_repo, backport_map, head_branch, head_ref, created, out>>

\* What the two "git remote get-url" runs can answer: upstream and a fork
\* pushed to, one repository for both under two URLs, or no base remote (the
\* command fails) and a push remote whose URL is of a form that
\* parse_github_owner_repo does not know.
RemoteSetups ==
  { [base |-> UpstreamUrl, push |-> ForkUrl],
    [base |-> UpstreamUrl, push |-> UpstreamSshUrl],
    [base |-> None, push |-> ForkSshUrl] }

\* git_remote_url(remote): the run, with the URL it printed.
RemoteUrlCall(url) ==
  IF url = None THEN Call("git remote get-url", 0, FALSE)
  ELSE Answer("git remote get-url", 0, url)

\* try: parse_github_owner_repo(git_remote_url(remote)) except Exception: None
RemoteRepo(url) == IF url = None THEN None ELSE parse_github_owner_repo(url)

\* Lines 467-487: both lookups run under "except Exception", then the base
\* repository is args.repo, else the base remote's, else the run ends.
ResolveRepos ==
  /\ pc = "remotes"
  /\ \E remotes \in RemoteSetups :
       /\ calls' = calls \o <<RemoteUrlCall(remotes.base), RemoteUrlCall(remotes.push)>>
       /\ push_remote_repo' = RemoteRepo(remotes.push)
       /\ base_repo' = IF args.repo # None THEN args.repo ELSE RemoteRepo(remotes.base)
       /\ IF base_repo' = None THEN Exit(1, "SystemExit") ELSE Goto("detect")
  /\ UNCHANGED <<probe, args, pr_numbers, labeled, prj, infos, not_completed, idx,
                 backport_map, head_branch, head_ref, created, out>>

\* One iteration of "for info in infos: backport_map[info.number] = ...": the
\* three searches of find_backport_infos, any of which can fail.
DetectBackports ==
  /\ pc = "detect"
  /\ idx <= Len(infos)
  /\ LET n == infos[idx].number IN
       \/ \E q \in 1..3 :
            /\ calls' = calls \o [j \in 1..q |-> Call("gh pr list --search", n, j < q)]
            /\ Exit(1, "RuntimeError")
            /\ UNCHANGED <<backport_map, idx>>
       \/ \E results \in SearchScenarios :
            /\ calls' = calls \o [j \in 1..3 |-> Call("gh pr list --search", n, TRUE)]
            /\ backport_map' = (n :> find_backport_infos(results)) @@ backport_map
            /\ idx' = idx + 1
            /\ Goto("detect")
  /\ UNCHANGED <<probe, args, pr_numbers, labeled, prj, infos, not_completed, base_repo,
                 push_remote_repo, head_branch, head_ref, created, out>>

\* backport_map.get(number) or []
BackportsOf(n) == IF n \in DOMAIN backport_map THEN backport_map[n] ELSE <<>>

\* "Will process PRs in merged order:" and "Pending merge into main:".
PrintPlan ==
  /\ pc = "detect"
  /\ idx > Len(infos)
  /\ out' = out \o [j \in 1..Len(infos) |-> Line("will process", infos[j].number)]
                \o [j \in 1..Len(not_completed) |->
                      Line("not completed", not_completed[j].number)]
  /\ idx' = 1
  /\ Goto("loop")
  /\ UNCHANGED <<probe, args, pr_numbers, labeled, prj, infos, not_completed, base_repo,
                 push_remote_repo, backport_map, head_branch, head_ref, created, calls>>

\* ------------------------------------------------------------------ main: the pipeline
\* The searches for backports are run again at the head of every iteration.
SkipCheck_detecting ==
  /\ pc = "loop"
  /\ idx <= Len(infos)
  /\ \E results \in SearchScenarios :
       LET n == infos[idx].number
           bps == find_backport_infos(results)
       IN /\ calls' = calls \o [j \in 1..3 |-> Call("gh pr list --search", n, TRUE)]
          /\ backport_map' = (n :> bps) @@ backport_map
          /\ IF Active(bps) # <<>>
               THEN /\ out' = Append(out, Line("skipping", n))
                    /\ idx' = idx + 1
                    /\ Goto("loop")
               ELSE /\ out' = Append(out, Line("cherry-pick", n))
                    /\ idx' = idx
                    /\ Goto("checkout")
  /\ UNCHANGED <<probe, args, pr_numbers, labeled, prj, infos, not_completed, base_repo,
                 push_remote_repo, head_branch, head_ref, created>>

\* The head of "for info in infos": the skip check.
SkipCheck ==
  /\ pc = "loop"
  /\ idx <= Len(infos)
  /\ IF Active(BackportsOf(infos[idx].number)) # <<>>
       THEN /\ out' = Append(out, Line("skipping", infos[idx].number))
            /\ idx' = idx + 1
            /\ Goto("loop")
       ELSE /\ out' = Append(out, Line("cherry-pick", infos[idx].number))
            /\ idx' = idx
            /\ Goto("checkout")
  /\ UNCHANGED <<probe, args, pr_numbers, labeled, prj, infos, not_completed, base_repo,
                 push_remote_repo, backport_map, head_branch, head_ref, created, calls>>

git_checkout_branch_from ==
  /\ pc = "checkout"
  /\ LET n == infos[idx].number IN
       \/ /\ calls' = Append(calls, Call("git checkout -B", n, FALSE))
          /\ Exit(1, "RuntimeError")
          /\ UNCHANGED head_branch
       \/ /\ calls' = Append(calls, Call("git checkout -B", n, TRUE))
          /\ head_branch' = n
          /\ Goto("cherry_pick")
  /\ UNCHANGED <<probe, args, pr_numbers, labeled, prj, infos, not_completed, idx, base_repo,
                 push_remote_repo, backport_map, head_ref, created, out>>

\* A failed cherry-pick skips the item and the loop continues.
git_cherrypick_x_continue ==
  /\ pc = "cherry_pick"
  /\ LET n == infos[idx].number IN
       \/ /\ calls' = Append(calls, Call("git cherry-pick", n, FALSE))
          /\ out' = Append(out, Line("stopping", n))
          /\ idx' = idx + 1
          /\ Goto("loop")
       \/ /\ calls' = Append(calls, Call("git cherry-pick", n, TRUE))
          /\ out' = out
          /\ idx' = idx
          /\ Goto("push")
  /\ UNCHANGED <<probe, args, pr_numbers, labeled, prj, infos, not_completed, base_repo,
                 push_remote_repo, backport_map, head_branch, head_ref, created>>

\* A failed cherry-pick is abandoned and the operator's branch checked out again.
git_cherrypick_x_abort ==
  /\ pc = "cherry_pick"
  /\ LET n == infos[idx].number IN
       \/ /\ calls' = Append(calls, Call("git cherry-pick", n, FALSE))
          /\ out' = Append(out, Line("stopping", n))
          /\ head_branch' = 0
          /\ Exit(2, "return conflict")
       \/ /\ calls' = Append(calls, Call("git cherry-pick", n, TRUE))
          /\ out' = out
          /\ head_branch' = head_branch
          /\ Goto("push")
  /\ UNCHANGED <<probe, args, pr_numbers, labeled, prj, infos, not_completed, idx, base_repo,
                 push_remote_repo, backport_map, head_ref, created>>

\* try: git_cherrypick_x(...) except RuntimeError: ... return 2
git_cherrypick_x ==
  /\ pc = "cherry_pick"
  /\ LET n == infos[idx].number IN
       \/ /\ calls' = Append(calls, Call("git cherry-pick", n, FALSE))
          /\ out' = Append(out, Line("stopping", n))
          /\ Exit(2, "return conflict")
       \/ /\ calls' = Append(calls, Call("git cherry-pick", n, TRUE))
          /\ out' = out
          /\ Goto("push")
  /\ UNCHANGED <<probe, args, pr_numbers, labeled, prj, infos, not_completed, idx, base_repo,
                 push_remote_repo, backport_map, head_branch, head_ref, created>>

\* Every failure of a push that was not forced leads to the force prompt.
git_push_prompt_any ==
  /\ pc = "push"
  /\ LET n == infos[idx].number
         op == IF args.force_push THEN "git push --force-with-lease" ELSE "git push"
     IN \/ /\ calls' = Append(calls, Call(op, n, TRUE))
           /\ Goto("compose")
        \/ \E msg \in {"non-fast-forward", "other"} :
             /\ calls' = Append(calls, FailedCall(op, n, msg))
             /\ IF ~args.force_push
                  THEN Goto("force_prompt")
                  ELSE Exit(1, "RuntimeError")
  /\ UNCHANGED <<probe, args, pr_numbers, labeled, prj, infos, not_completed, idx, base_repo,
                 push_remote_repo, backport_map, head_branch, head_ref, created, out>>

\* run(cmd, check=False): whatever the push answers, the item goes on.
git_push_unchecked ==
  /\ pc = "push"
  /\ LET n == infos[idx].number
         op == IF args.force_push THEN "git push --force-with-lease" ELSE "git push"
     IN \/ calls' = Append(calls, Call(op, n, TRUE))
        \/ \E msg \in {"non-fast-forward", "other"} :
             calls' = Append(calls, FailedCall(op, n, msg))
  /\ Goto("compose")
  /\ UNCHANGED <<probe, args, pr_numbers, labeled, prj, infos, not_completed, idx, base_repo,
                 push_remote_repo, backport_map, head_branch, head_ref, created, out>>

\* git_push: the first run(cmd).  A failure is re-raised unless the push was not
\* forced and the message names a non-fast-forward rejection.
git_push ==
  /\ pc = "push"
  /\ LET n == infos[idx].number
         op == IF args.force_push THEN "git push --force-with-lease" ELSE "git push"
     IN \/ /\ calls' = Append(calls, Call(op, n, TRUE))
           /\ Goto("compose")
        \/ \E msg \in {"non-fast-forward", "other"} :
             /\ calls' = Append(calls, FailedCall(op, n, msg))
             /\ IF ~args.force_push /\ msg = "non-fast-forward"
                  THEN Goto("force_prompt")
                  ELSE Exit(1, "RuntimeError")
  /\ UNCHANGED <<probe, args, pr_numbers, labeled, prj, infos, not_completed, idx, base_repo,
                 push_remote_repo, backport_map, head_branch, head_ref, created, out>>

\* Declining the force prompt lets the item go on as if it had been pushed.
ForcePrompt_declined_continues ==
  /\ pc = "force_prompt"
  /\ \E yes \in BOOLEAN :
       /\ calls' = Append(calls, Call("confirm force", infos[idx].number, yes))
       /\ IF yes THEN Goto("force_push") ELSE Goto("compose")
  /\ UNCHANGED <<probe, args, pr_numbers, labeled, prj, infos, not_completed, idx, base_repo,
                 push_remote_repo, backport_map, head_branch, head_ref, created, out>>

\* git_push: confirm("... Force-with-lease push? [y/N] "); declining re-raises.
ForcePrompt ==
  /\ pc = "force_prompt"
  /\ \E yes \in BOOLEAN :
       /\ calls' = Append(calls, Call("confirm force", infos[idx].number, yes))
       /\ IF yes THEN Goto("force_push") ELSE Exit(1, "RuntimeError")
  /\ UNCHANGED <<probe, args, pr_numbers, labeled, prj, infos, not_completed, idx, base_repo,
                 push_remote_repo, backport_map, head_branch, head_ref, created, out>>

\* git_push: the second run(cmd), with --force-with-lease.
ForcePush ==
  /\ pc = "force_push"
  /\ LET n == infos[idx].number IN
       \/ /\ calls' = Append(calls, Call("git push --force-with-lease", n, TRUE))
          /\ Goto("compose")
       \/ /\ calls' = Append(calls, Call("git push --force-with-lease", n, FALSE))
          /\ Exit(1, "RuntimeError")
  /\ UNCHANGED <<probe, args, pr_numbers, labeled, prj, infos, not_completed, idx, base_repo,
                 push_remote_repo, backport_map, head_branch, head_ref, created, out>>

\* branch = f"{prefix}/{release}/pr-{number}"
Branch(n) == <<"pr-", n>>

\* head_ref, git_commit_subject, the title and body, and the printed preview.
\* The head reference is always the bare branch name.
Compose_bare_head ==
  /\ pc = "compose"
  /\ LET n == infos[idx].number IN
       \/ /\ calls' = Append(calls, Call("git show", n, FALSE))
          /\ Exit(1, "RuntimeError")
          /\ UNCHANGED <<head_ref, out>>
       \/ /\ calls' = Append(calls, Call("git show", n, TRUE))
          /\ head_ref' = Branch(n)
          /\ out' = Append(out, Line("preview", n))
          /\ Goto("confirm")
  /\ UNCHANGED <<probe, args, pr_numbers, labeled, prj, infos, not_completed, idx, base_repo,
                 push_remote_repo, backport_map, head_branch, created>>

Compose ==
  /\ pc = "compose"
  /\ LET n == infos[idx].number IN
       \/ /\ calls' = Append(calls, Call("git show", n, FALSE))
          /\ Exit(1, "RuntimeError")
          /\ UNCHANGED <<head_ref, out>>
       \/ /\ calls' = Append(calls, Call("git show", n, TRUE))
          /\ head_ref' = IF base_repo # None /\ push_remote_repo # None
                            /\ base_repo # push_remote_repo
                         THEN <<push_remote_repo[1], ":">> \o Branch(n)
                         ELSE Branch(n)
          /\ out' = Append(out, Line("preview", n))
          /\ Goto("confirm")
  /\ UNCHANGED <<probe, args, pr_numbers, labeled, prj, infos, not_completed, idx, base_repo,
                 push_remote_repo, backport_map, head_branch, created>>

\* The operator's answer is not consulted: the pull request is created.
ConfirmCreate_ignored ==
  /\ pc = "confirm"
  /\ \E yes \in BOOLEAN :
       /\ calls' = Append(calls, Call("confirm create", infos[idx].number, yes))
       /\ Goto("create")
  /\ UNCHANGED <<probe, args, pr_numbers, labeled, prj, infos, not_completed, idx, base_repo,
                 push_remote_repo, backport_map, head_branch, head_ref, created, out>>

\* Declining skips the item and the loop continues with the next one.
ConfirmCreate_skip ==
  /\ pc = "confirm"
  /\ \E yes \in BOOLEAN :
       /\ calls' = Append(calls, Call("confirm create", infos[idx].number, yes))
       /\ IF yes THEN idx' = idx /\ Goto("create")
                 ELSE idx' = idx + 1 /\ Goto("loop")
  /\ UNCHANGED <<probe, args, pr_numbers, labeled, prj, infos, not_completed, base_repo,
                 push_remote_repo, backport_map, head_branch, head_ref, created, out>>

\* Declining ends the run like an error.
ConfirmCreate_exit1 ==
  /\ pc = "confirm"
  /\ \E yes \in BOOLEAN :
       /\ calls' = Append(calls, Call("confirm create", infos[idx].number, yes))
       /\ IF yes THEN Goto("create") ELSE Exit(1, "return declined")
  /\ UNCHANGED <<probe, args, pr_numbers, labeled, prj, infos, not_completed, idx, base_repo,
                 push_remote_repo, backport_map, head_branch, head_ref, created, out>>

\* if not confirm("Create this PR on GitHub? [y/N] "): ... return 0
\* The operator never answers the prompt of line 594: input() does not return.
ConfirmCreate_unanswered ==
  /\ pc = "confirm"
  /\ UNCHANGED vars

ConfirmCreate ==
  /\ pc = "confirm"
  /\ \E yes \in BOOLEAN :
       /\ calls' = Append(calls, Call("confirm create", infos[idx].number, yes))
       /\ IF yes THEN Goto("create") ELSE Exit(0, "return declined")
  /\ UNCHANGED <<probe, args, pr_numbers, labeled, prj, infos, not_completed, idx, base_repo,
                 push_remote_repo, backport_map, head_branch, head_ref, created, out>>

\* pr_url = gh_pr_create(...); created.append((info.number, pr_url))
\* A failed creation is passed over and the loop goes on with the next item.
gh_pr_create_keep_going ==
  /\ pc = "create"
  /\ LET n == infos[idx].number IN
       \/ /\ calls' = Append(calls, Call("gh pr create", n, FALSE))
          /\ UNCHANGED <<created, out>>
       \/ /\ calls' = Append(calls, Call("gh pr create", n, TRUE))
          /\ created' = Append(created, <<n, <<"url", head_ref>>>>)
          /\ out' = Append(out, Line("created", n))
  /\ idx' = idx + 1
  /\ Goto("loop")
  /\ UNCHANGED <<probe, args, pr_numbers, labeled, prj, infos, not_completed, base_repo,
                 push_remote_repo, backport_map, head_branch, head_ref>>

\* The pull request is created and its URL printed, but not recorded.
gh_pr_create_unrecorded ==
  /\ pc = "create"
  /\ LET n == infos[idx].number IN
       \/ /\ calls' = Append(calls, Call("gh pr create", n, FALSE))
          /\ Exit(1, "RuntimeError")
          /\ UNCHANGED <<idx, out>>
       \/ /\ calls' = Append(calls, Call("gh pr create", n, TRUE))
          /\ out' = Append(out, Line("created", n))
          /\ idx' = idx + 1
          /\ Goto("loop")
  /\ UNCHANGED <<probe, args, pr_numbers, labeled, prj, infos, not_completed, base_repo,
                 push_remote_repo, backport_map, head_branch, head_ref, created>>

gh_pr_create ==
  /\ pc = "create"
  /\ LET n == infos[idx].number IN
       \/ /\ calls' = Append(calls, Call("gh pr create", n, FALSE))
          /\ Exit(1, "RuntimeError")
          /\ UNCHANGED <<created, idx, out>>
       \/ /\ calls' = Append(calls, Call("gh pr create", n, TRUE))
          /\ created' = Append(created, <<n, <<"url", head_ref>>>>)
          /\ out' = Append(out, Line("created", n))
          /\ idx' = idx + 1
          /\ Goto("loop")
  /\ UNCHANGED <<probe, args, pr_numbers, labeled, prj, infos, not_completed, base_repo,
                 push_remote_repo, backport_map, head_branch, head_ref>>

\* After the loop: "Done. Created PRs:" and return 0.
Done ==
  /\ pc = "loop"
  /\ idx > Len(infos)
  /\ out' = Append(out, Line("done", Len(created)))
  /\ Exit(0, "return done")
  /\ UNCHANGED <<probe, args, pr_numbers, labeled, prj, infos, not_completed, idx, base_repo,
                 push_remote_repo, backport_map, head_branch, head_ref, created, calls>>

Next ==
  \/ parse_args
  \/ ensure_clean_worktree
  \/ ParseArgs
  \/ gh_pr_list_label
  \/ LoadLabeled
  \/ LoadExplicit
  \/ SortInfos
  \/ DryRun
  \/ git_fetch
  \/ ResolveRepos
  \/ DetectBackports
  \/ PrintPlan
  \/ SkipCheck
  \/ git_checkout_branch_from
  \/ git_cherrypick_x
  \/ git_push
  \/ ForcePrompt
  \/ ForcePush
  \/ Compose
  \/ ConfirmCreate
  \/ gh_pr_create
  \/ Done

Spec == Init /\ [][Next]_vars

\* The run under the assumption that every external call returns and every
\* prompt is answered: the interpreter then always takes the next step of main.
FairSpec == Spec /\ WF_vars(Next)

\* ------------------------------------------------------------------ the functions on their own
\* One call of parse_pr_numbers, of find_backport_infos or of the title
\* composition of main, with an argument of the pools above: probe holds the
\* function, its argument, and after the call its result (raised: the call
\* ended in SystemExit).
Probe(fn, in) == [fn |-> fn, in |-> in, out |-> None, raised |-> FALSE]

FunctionsInit ==
  /\ \/ probe \in {Probe("parse_pr_numbers", refs) : refs \in RefLists}
     \/ probe \in {Probe("find_backport_infos", results) : results \in SearchAnswers}
     \/ probe \in {Probe("pr_title", [base_title |-> subject, number |-> n]) :
                     subject \in Subjects, n \in RefIds}
  /\ pc = "call"
  /\ args = [release_branch |-> ReleaseBranch, allow_dirty |-> FALSE,
             force_push |-> FALSE, dry_run |-> FALSE, from_backport_label |-> FALSE,
             repo |-> None, prs |-> <<>>]
  /\ pr_numbers = <<>>
  /\ labeled = <<>>
  /\ prj = None
  /\ infos = <<>>
  /\ not_completed = <<>>
  /\ idx = 1
  /\ base_repo = None
  /\ push_remote_repo = None
  /\ backport_map = <<>>
  /\ head_branch = 0
  /\ head_ref = <<>>
  /\ created = <<>>
  /\ calls = <<>>
  /\ out = <<>>
  /\ exit_status = Running
  /\ exit_via = "none"

Return(result, raised) ==
  /\ probe' = [probe EXCEPT !.out = result, !.raised = raised]
  /\ pc' = "return"
  /\ UNCHANGED <<args, pr_numbers, labeled, prj, infos, not_completed, idx, base_repo,
                 push_remote_repo, backport_map, head_branch, head_ref, created,
                 calls, out, exit_status, exit_via>>

call_parse_pr_numbers ==
  /\ pc = "call"
  /\ probe.fn = "parse_pr_numbers"
  /\ IF ParseOk(probe.in) THEN Return(parse_pr_numbers(probe.in), FALSE)
     ELSE Return(None, TRUE)

call_find_backport_infos ==
  /\ pc = "call"
  /\ probe.fn = "find_backport_infos"
  /\ Return(find_backport_infos(probe.in), FALSE)

call_pr_title ==
  /\ pc = "call"
  /\ probe.fn = "pr_title"
  /\ Return(pr_title(probe.in.base_title, probe.in.number), FALSE)

FunctionsNext ==
  \/ call_parse_pr_numbers
  \/ call_find_backport_infos
  \/ call_pr_title

Functions == FunctionsInit /\ [][FunctionsNext]_vars

\* ------------------------------------------------------------------ vocabulary of the properties
\* The calls that change the repository, the remote or the hosting platform.
PipelineOps ==
  {"git checkout -B", "git cherry-pick", "git push", "git push --force-with-lease",
   "gh pr create"}
MutatingOps == PipelineOps \cup {"git fetch"}
PushOps == {"git push", "git push --force-with-lease"}
PromptOps == {"confirm force", "confirm create"}
\* The queries that read and change nothing.
ReadOnlyOps ==
  {"git status", "gh pr view", "gh pr list --label", "gh pr list --search",
   "git remote get-url", "git show"}

\* The numbers of the queue items after position k.
After(k) == {infos[m].number : m \in (k + 1)..Len(infos)}

\* The positions of the queue at which pull request n stands.
PosOf(n) == {k \in 1..Len(infos) : infos[k].number = n}

\* Nothing of the pipeline has been issued or printed for pull request n.
Untouched(n) ==
  /\ \A j \in 1..Len(calls) :
       calls[j].pr = n => calls[j].op \notin PipelineOps \cup PromptOps \cup {"git show"}
  /\ \A j \in 1..Len(out) :
       out[j].pr = n => out[j].kind \notin {"skipping", "cherry-pick", "preview", "created"}

NoPullRequestFor(n) ==
  /\ \A j \in 1..Len(calls) : ~(calls[j].op = "gh pr create" /\ calls[j].pr = n)
  /\ \A j \in 1..Len(created) : created[j][1] # n

\* ------------------------------------------------------------------ C1
\* C1: when the cherry-pick of the item at position k of the sorted queue fails,
\* the run has ended with exit status 2, the failed cherry-pick is the last call
\* of the run, no pull request was created for item k, and nothing of the
\* pipeline was issued for any item after k.
C1_ConflictStopsRun ==
  \A j \in 1..Len(calls) :
    (calls[j].op = "git cherry-pick" /\ ~calls[j].ok) =>
      /\ pc = "exit"
      /\ exit_status = <<2>>
      /\ j = Len(calls)
      /\ NoPullRequestFor(calls[j].pr)
      /\ \A k \in PosOf(calls[j].pr) : \A n \in After(k) : Untouched(n)

\* A cherry-pick failed on an item of the queue that another item follows, and
\* the run ended with status 2.
C1_Witness ==
  /\ Len(calls) > 0
  /\ calls[Len(calls)].op = "git cherry-pick"
  /\ ~calls[Len(calls)].ok
  /\ \E k \in PosOf(calls[Len(calls)].pr) : After(k) # {}
  /\ exit_status = <<2>>

\* ------------------------------------------------------------------ C2
\* C2 as stated: no push and no pull-request creation is issued for an item
\* before the operator confirmed that item at the creation prompt.
C2_ConfirmBeforeAnyMutation ==
  \A j \in 1..Len(calls) :
    calls[j].op \in PushOps \cup {"gh pr create"} =>
      \E c \in 1..(j - 1) :
        calls[c].op = "confirm create" /\ calls[c].pr = calls[j].pr /\ calls[c].ok

\* C2 as amended: no pull-request creation is issued for an item before the
\* operator confirmed that item at the creation prompt; the push of the branch
\* is not gated by it: the prompt is shown only after a successful push of the
\* item's branch.
C2_ConfirmBeforeCreate ==
  /\ \A j \in 1..Len(calls) :
       calls[j].op = "gh pr create" =>
         /\ j > 1
         /\ calls[j - 1].op = "confirm create"
         /\ calls[j - 1].pr = calls[j].pr
         /\ calls[j - 1].ok
  /\ \A c \in 1..Len(calls) :
       calls[c].op = "confirm create" =>
         \E p \in 1..(c - 1) :
           calls[p].op \in PushOps /\ calls[p].pr = calls[c].pr /\ calls[p].ok

C2_Witness ==
  \E j \in 1..Len(calls) : calls[j].op = "gh pr create" /\ calls[j].ok

\* ------------------------------------------------------------------ C3
\* C3: when the operator declines the creation prompt for an item, the run has
\* ended there: the declined prompt is the last call, no pull request was
\* created for the item, and nothing was issued or printed (skip message,
\* branch creation, cherry-pick, push, creation) for any later item.
C3_DeclineHaltsQueue ==
  \A j \in 1..Len(calls) :
    (calls[j].op = "confirm create" /\ ~calls[j].ok) =>
      /\ pc = "exit"
      /\ j = Len(calls)
      /\ NoPullRequestFor(calls[j].pr)
      /\ \A k \in PosOf(calls[j].pr) : \A n \in After(k) : Untouched(n)
      /\ out # <<>> /\ out[Len(out)] = Line("preview", calls[j].pr)

C3_Witness ==
  /\ Len(calls) > 0
  /\ calls[Len(calls)].op = "confirm create"
  /\ ~calls[Len(calls)].ok
  /\ \E k \in PosOf(calls[Len(calls)].pr) : After(k) # {}

\* ------------------------------------------------------------------ C4
\* What the dry run prints: the queue, then the not-completed entries.
DryRunPlan ==
  [j \in 1..Len(infos) |-> Line("would process", infos[j].number)]
    \o [j \in 1..Len(not_completed) |-> Line("not completed", not_completed[j].number)]

\* C4: with --dry-run, whatever the size of the queue, every call of the run is
\* a read-only query (no fetch, branch creation, cherry-pick, push, creation and
\* no prompt), the live part of main is never entered, and a run that loaded
\* its queue ends by returning 0 with the plan printed.
C4_DryRunMutatesNothing ==
  args.dry_run =>
    /\ \A j \in 1..Len(calls) :
         calls[j].op \in {"git status", "gh pr view", "gh pr list --label"}
    /\ pc \in {"argparse", "start", "parse", "list_label", "load_label", "load", "dry_run", "exit"}
    /\ (pc = "exit" /\ exit_via \notin {"SystemExit", "RuntimeError"}) =>
         /\ exit_status = <<0>>
         /\ exit_via = "return dry-run"
         /\ out = DryRunPlan
    /\ (pc = "exit" /\ exit_via \in {"SystemExit", "RuntimeError"}) => out = <<>>
    /\ created = <<>>
    /\ head_branch = 0

\* A dry run over a queue of the largest size, with the plan printed.
C4_Witness ==
  /\ args.dry_run
  /\ Len(infos) = MaxPRs
  /\ exit_status = <<0>>
  /\ Len(out) = MaxPRs

\* ------------------------------------------------------------------ C5
\* The numbers of the items the pipeline has taken up, in the order it did.
RECURSIVE TakenUp(_)
TakenUp(lines) ==
  IF lines = <<>> THEN <<>>
  ELSE LET front == TakenUp(SubSeq(lines, 1, Len(lines) - 1))
           last == lines[Len(lines)]
       IN IF last.kind \in {"skipping", "cherry-pick"} THEN Append(front, last.pr)
          ELSE front

\* The position at which pull request n was given (explicit mode) or listed
\* (label mode).
DiscoveryPos(n) ==
  IF args.from_backport_label
    THEN CHOOSE j \in 1..Len(labeled) : labeled[j].number = n
    ELSE CHOOSE j \in 1..Len(pr_numbers) : pr_numbers[j] = n

MergedAtOf(n) == infos[CHOOSE k \in 1..Len(infos) : infos[k].number = n].merged_at

\* C5: the items are taken up in non-decreasing order of merge timestamp, and
\* of two items with the same merge timestamp the one given or listed first is
\* taken up first.
C5_MergeOrder ==
  LET order == TakenUp(out) IN
    \A a, b \in 1..Len(order) :
      a < b =>
        /\ MergedAtOf(order[a]) <= MergedAtOf(order[b])
        /\ MergedAtOf(order[a]) = MergedAtOf(order[b]) =>
             DiscoveryPos(order[a]) < DiscoveryPos(order[b])

\* Two items with the same merge timestamp have both been taken up.
C5_Witness ==
  LET order == TakenUp(out) IN
    /\ Len(order) >= 2
    /\ MergedAtOf(order[1]) = MergedAtOf(order[2])
    /\ args.from_backport_label

\* ------------------------------------------------------------------ C6
LoopPcs ==
  {"loop", "checkout", "cherry_pick", "push", "force_prompt", "force_push",
   "compose", "confirm", "create"}

HasLine(kind, n) == \E j \in 1..Len(out) : out[j] = Line(kind, n)

HasCall(op, n) == \E j \in 1..Len(calls) : calls[j].op = op /\ calls[j].pr = n

\* C6: an item with at least one OPEN or MERGED candidate is skipped (a skip
\* message, nothing of the pipeline issued for it, the loop moves on to the
\* next position); an item whose candidates are all in other states, or that
\* has none, is not skipped and enters the pipeline with its branch creation.
C6_ActiveCandidateSkips ==
  /\ \A k \in 1..Len(infos) :
       LET n == infos[k].number IN
         n \in DOMAIN backport_map =>
           LET act == \E j \in 1..Len(backport_map[n]) :
                        backport_map[n][j].state \in {"OPEN", "MERGED"}
               reached == pc \in LoopPcs /\ (idx > k \/ (idx = k /\ pc # "loop"))
           IN /\ act =>
                   /\ ~HasLine("cherry-pick", n)
                   /\ \A j \in 1..Len(calls) :
                        calls[j].pr = n => calls[j].op \notin PipelineOps \cup PromptOps
                   /\ reached => HasLine("skipping", n)
              /\ ~act =>
                   /\ ~HasLine("skipping", n)
                   /\ reached =>
                        /\ HasLine("cherry-pick", n)
                        /\ pc = "checkout" \/ HasCall("git checkout -B", n)
  /\ (out # <<>> /\ out[Len(out)].kind = "skipping") =>
       /\ pc = "loop"
       /\ \A k \in PosOf(out[Len(out)].pr) : idx = k + 1

\* An item with candidates {OPEN, CLOSED} was skipped and the next item, whose
\* only candidate is CLOSED, had its branch created.
C6_Witness ==
  \E k \in 1..(Len(infos) - 1) :
    /\ infos[k].number \in DOMAIN backport_map
    /\ infos[k + 1].number \in DOMAIN backport_map
    /\ {backport_map[infos[k].number][j].state :
          j \in 1..Len(backport_map[infos[k].number])} = {"OPEN", "CLOSED"}
    /\ {backport_map[infos[k + 1].number][j].state :
          j \in 1..Len(backport_map[infos[k + 1].number])} = {"CLOSED"}
    /\ HasLine("skipping", infos[k].number)
    /\ HasCall("git checkout -B", infos[k + 1].number)

\* ------------------------------------------------------------------ C7
\* main has returned (as opposed to ending by an exception).
Returned ==
  pc = "exit" /\ exit_via \in {"return dry-run", "return conflict", "return declined",
                               "return done"}

\* C7: every change request of the queue, and so every one the pipeline issues
\* a call or a prompt for, has state MERGED and a non-empty merge-commit
\* identifier; in label mode a listed change request that is not MERGED is put
\* in not_completed, is reported by every run that prints its plan, and never
\* has a branch created, a cherry-pick run, a push or a pull request created.
C7_OnlyMergedEnterPipeline ==
  /\ \A k \in 1..Len(infos) : infos[k].state = "MERGED" /\ infos[k].merge_sha # <<>>
  /\ \A j \in 1..Len(calls) :
       calls[j].op \in PipelineOps \cup PromptOps =>
         \E k \in 1..Len(infos) :
           /\ infos[k].number = calls[j].pr
           /\ infos[k].state = "MERGED"
           /\ infos[k].merge_sha # <<>>
  /\ args.from_backport_label =>
       \A j \in 1..Len(labeled) :
         labeled[j].state # "MERGED" =>
           LET n == labeled[j].number IN
             /\ \A c \in 1..Len(calls) :
                  calls[c].pr = n => calls[c].op \notin PipelineOps \cup PromptOps
             /\ \A k \in 1..Len(infos) : infos[k].number # n
             /\ ((pc = "load_label" /\ j < idx) \/ pc \in LoopPcs \/ Returned) =>
                  \E m \in 1..Len(not_completed) :
                    /\ not_completed[m].number = n
                    /\ not_completed[m].state = labeled[j].state
             /\ (pc \in LoopPcs \/ Returned) => HasLine("not completed", n)

\* Label mode listed an OPEN change request and a merged one: the merged one
\* got its pull request, the open one was only reported.
C7_Witness ==
  /\ args.from_backport_label
  /\ \E j \in 1..Len(labeled) :
       /\ labeled[j].state = "OPEN"
       /\ HasLine("not completed", labeled[j].number)
  /\ \E c \in 1..Len(calls) : calls[c].op = "gh pr create" /\ calls[c].ok

\* ------------------------------------------------------------------ C8
\* C8: in explicit mode, once a requested identifier has resolved to a change
\* request that is not MERGED or has no merge-commit identifier, the run has
\* ended with a non-zero status and has issued no fetch, branch creation,
\* cherry-pick, push, prompt or pull-request creation for any item.
C8_ExplicitModeFailsFast ==
  (/\ ~args.from_backport_label
   /\ prj # None
   /\ (prj.state # "MERGED" \/ ~prj.has_sha)) =>
    /\ pc = "exit"
    /\ exit_status \notin {Running, <<0>>}
    /\ \A j \in 1..Len(calls) : calls[j].op \notin MutatingOps \cup PromptOps
    /\ created = <<>>
    /\ head_branch = 0

\* A valid identifier was loaded, the next one resolved to an OPEN change request.
C8_Witness ==
  /\ ~args.from_backport_label
  /\ Len(infos) >= 1
  /\ prj # None
  /\ prj.state = "OPEN"
  /\ pc = "exit"

\* ------------------------------------------------------------------ C9
\* C9: a push without --force-with-lease that is rejected as non-fast-forward,
\* force not being pre-authorized, is followed by the force prompt for the same
\* item; a declined force prompt is the last call of the run (no pull request
\* for the item, nothing for any later item); an accepted one is followed by the
\* force-with-lease push, and when that succeeds the item goes on to the commit
\* subject lookup of the composition and then to the creation prompt.
C9_ForcePrompt ==
  \A j \in 1..Len(calls) :
    /\ (calls[j].op = "git push" /\ ~calls[j].ok /\ calls[j].msg = "non-fast-forward"
        /\ ~args.force_push) =>
         IF j = Len(calls) THEN pc = "force_prompt"
         ELSE calls[j + 1].op = "confirm force" /\ calls[j + 1].pr = calls[j].pr
    /\ (calls[j].op = "confirm force" /\ ~calls[j].ok) =>
         /\ j = Len(calls)
         /\ pc = "exit"
         /\ NoPullRequestFor(calls[j].pr)
         /\ \A k \in PosOf(calls[j].pr) : \A n \in After(k) : Untouched(n)
    /\ (calls[j].op = "confirm force" /\ calls[j].ok) =>
         /\ IF j = Len(calls) THEN pc = "force_push"
            ELSE /\ calls[j + 1].op = "git push --force-with-lease"
                 /\ calls[j + 1].pr = calls[j].pr
         /\ (j + 1 <= Len(calls) /\ calls[j + 1].ok) =>
              IF j + 1 = Len(calls) THEN pc = "compose"
              ELSE /\ calls[j + 2].op = "git show"
                   /\ calls[j + 2].pr = calls[j].pr
                   /\ calls[j + 2].ok =>
                        IF j + 2 = Len(calls) THEN pc = "confirm"
                        ELSE /\ calls[j + 3].op = "confirm create"
                             /\ calls[j + 3].pr = calls[j].pr

\* The operator accepted the force push for one item, which went on to its
\* creation prompt, and declined it for the next one.
C9_Witness ==
  \E a, d \in 1..Len(calls) :
    /\ a < d
    /\ calls[a].op = "confirm force" /\ calls[a].ok
    /\ a + 3 <= Len(calls)
    /\ calls[a + 1].op = "git push --force-with-lease" /\ calls[a + 1].ok
    /\ calls[a + 3].op = "confirm create"
    /\ calls[d].op = "confirm force" /\ ~calls[d].ok

\* ------------------------------------------------------------------ C10
\* The run ended because the operator declined the prompt op.
EndedByDeclining(op) ==
  /\ pc = "exit"
  /\ calls # <<>>
  /\ calls[Len(calls)].op = op
  /\ ~calls[Len(calls)].ok

\* C10 as stated: a run that ends because the operator declined either prompt
\* ends with exit status 0, and so does a run that completes the queue.
C10_DeclineExitsZero ==
  /\ EndedByDeclining("confirm create") => exit_status = <<0>>
  /\ EndedByDeclining("confirm force") => exit_status = <<0>>
  /\ (pc = "exit" /\ exit_via = "return done") => exit_status = <<0>>

\* C10 as amended: a run that ends because the operator declined the creation
\* prompt ends with exit status 0, and so does a run that completes the queue;
\* a run that ends because the operator declined the force-with-lease prompt
\* ends with the non-zero status of the re-raised push failure (1).
C10_DeclineExitStatus ==
  /\ EndedByDeclining("confirm create") => exit_status = <<0>>
  /\ EndedByDeclining("confirm force") => exit_status = <<1>>
  /\ (pc = "exit" /\ exit_via = "return done") => exit_status = <<0>>

\* The operator declined the force-with-lease prompt after a pull request had
\* been created for an earlier item.
C10_Witness ==
  /\ EndedByDeclining("confirm force")
  /\ created # <<>>

\* ------------------------------------------------------------------ C11
\* A cherry-pick step of the run failed.
CherryPickFailed ==
  \E j \in 1..Len(calls) : calls[j].op = "git cherry-pick" /\ ~calls[j].ok

\* C11 as stated: a run ends with exit status 2 exactly when one of its
\* cherry-pick steps failed, and a cherry-pick is issued at most once for an
\* item (a failed one is never tried again).
C11_StatusTwoIffConflict ==
  /\ pc = "exit" => (exit_status = <<2>> <=> CherryPickFailed)
  /\ \A j, k \in 1..Len(calls) :
       (calls[j].op = "git cherry-pick" /\ calls[k].op = "git cherry-pick"
          /\ calls[j].pr = calls[k].pr) => j = k

\* ------------------------------------------------------------------ C12
\* Call j is an external tool run, other than a cherry-pick, that exited non-zero.
ToolFailure(j) ==
  /\ calls[j].op \notin PromptOps \cup {"git cherry-pick"}
  /\ ~calls[j].ok

\* Call j is a push rejected as non-fast-forward that the operator authorized
\* to be forced.
AuthorizedRejection(j) ==
  /\ calls[j].op = "git push"
  /\ calls[j].msg = "non-fast-forward"
  /\ j < Len(calls)
  /\ calls[j + 1].op = "confirm force"
  /\ calls[j + 1].ok

\* Nothing but the force prompt follows call j: the run has ended with a
\* non-zero status, or stands at that prompt.
AbortedAt(j) ==
  /\ \A k \in (j + 1)..Len(calls) : calls[k].op = "confirm force" /\ ~calls[k].ok
  /\ \/ pc = "exit" /\ exit_status \notin {Running, <<0>>}
     \/ pc = "force_prompt" /\ j = Len(calls)

\* C12 as stated: every failed tool run outside the cherry-pick step, other
\* than an authorized non-fast-forward rejection, aborts the run.
C12_AnyToolFailureAborts ==
  \A j \in 1..Len(calls) :
    (ToolFailure(j) /\ ~AuthorizedRejection(j)) => AbortedAt(j)

\* C12 as amended: every failed tool run outside the cherry-pick step, other
\* than an authorized non-fast-forward rejection and other than the two
\* remote-URL lookups, aborts the run; a failed remote-URL lookup ends the run
\* (with status 1) only if no base repository is known, and is ignored otherwise.
C12_ToolFailureAborts ==
  /\ \A j \in 1..Len(calls) :
       (ToolFailure(j) /\ ~AuthorizedRejection(j) /\ calls[j].op # "git remote get-url")
         => AbortedAt(j)
  /\ \A j \in 1..Len(calls) :
       (calls[j].op = "git remote get-url" /\ ~calls[j].ok /\ pc = "exit"
          /\ calls[Len(calls)].op = "git remote get-url" /\ exit_via # "return done")
         => (args.repo = None /\ base_repo = None /\ exit_status = <<1>>)

\* A remote-URL lookup failed and the run went on; the push of the first
\* of two items then failed for a reason other than a non-fast-forward
\* rejection, and the run ended there.
C12_Witness ==
  /\ pc = "exit"
  /\ calls # <<>>
  /\ calls[Len(calls)].op = "git push"
  /\ calls[Len(calls)].msg = "other"
  /\ \E k \in PosOf(calls[Len(calls)].pr) : After(k) # {}
  /\ \E j \in 1..Len(calls) : calls[j].op = "git remote get-url" /\ ~calls[j].ok

\* ------------------------------------------------------------------ C13
\* git status --porcelain reported changes: the working tree is dirty.
DirtyTree ==
  /\ calls # <<>>
  /\ calls[1].op = "git status"
  /\ calls[1].ok
  /\ calls[1].msg # ""

\* The command line names no reference outside label mode, or a reference no
\* number can be extracted from.
InputError ==
  \/ ~args.from_backport_label /\ args.prs = <<>>
  \/ ~ParseOk(args.prs)

\* C13: on a dirty tree without --allow-dirty the run has ended with a non-zero
\* status, with and without --dry-run, and the tree check is its only call (no
\* query of a change request, no fetch, branch, cherry-pick, push or creation);
\* with --allow-dirty a dirty tree does not end the run: a run that ended right
\* after the tree check ended on an input error.
C13_DirtyTreeAborts ==
  /\ (DirtyTree /\ ~args.allow_dirty) =>
       /\ pc = "exit"
       /\ exit_status \notin {Running, <<0>>}
       /\ Len(calls) = 1
       /\ out = <<>>
       /\ created = <<>>
       /\ head_branch = 0
  /\ (DirtyTree /\ args.allow_dirty /\ pc = "exit" /\ Len(calls) = 1) => InputError

\* A live run over a full list of references ended on the dirty tree.
C13_Witness ==
  /\ DirtyTree
  /\ ~args.allow_dirty
  /\ ~args.dry_run
  /\ Len(args.prs) = MaxPRs
  /\ ~InputError
  /\ pc = "exit"

\* ------------------------------------------------------------------ C14
\* C14: a run whose command line carries an input error never gets past the
\* parsing of the references: it issues no call but the tree check (no fetch,
\* branch creation, cherry-pick, push or creation), prints and creates
\* nothing, and when it has ended its exit status is non-zero.
C14_InputErrorMutatesNothing ==
  InputError =>
    /\ pc \in {"argparse", "start", "parse", "exit"}
    /\ pc = "exit" => exit_status \notin {Running, <<0>>}
    /\ \A j \in 1..Len(calls) : calls[j].op = "git status"
    /\ out = <<>>
    /\ created = <<>>
    /\ head_branch = 0

\* A live run past the tree check ended on a reference without a number.
C14_Witness ==
  /\ ~ParseOk(args.prs)
  /\ ~args.dry_run
  /\ Len(calls) = 1
  /\ calls[1].ok
  /\ pc = "exit"
  /\ exit_via = "SystemExit"
  /\ exit_status = <<1>>

\* ------------------------------------------------------------------ C15
\* title ends in suffix.
EndsWith(title, suffix) ==
  /\ Len(suffix) <= Len(title)
  /\ SubSeq(title, Len(title) - Len(suffix) + 1, Len(title)) = suffix

\* The title composition was applied.
Composed == pc = "return" /\ probe.fn = "pr_title"

\* C15 as stated: a subject that ends in the marker "(#id)" of the item's own
\* identifier is the title as it is; any other subject, one that ends in the
\* marker of another identifier included, is followed by " (#id)"; so every
\* title ends in the marker of the item's own identifier.
C15_TitleEndsInOwnMarker ==
  Composed =>
    LET subject == probe.in.base_title
        own == SquashSuffix(probe.in.number)
    IN /\ EndsWith(subject, own) => probe.out = subject
       /\ ~EndsWith(subject, own) => probe.out = subject \o <<" ">> \o own
       /\ EndsWith(probe.out, own)

\* ------------------------------------------------------------------ C16
\* The number that a reference of the pool names: ref is "n", "#n" or a
\* string that contains "/pull/n".
IdOf(ref) == CHOOSE n \in RefIds : \E form \in 0..3 : ref = RefOf(n, form)

\* The position at which n first occurs among the references.
FirstAt(refs, n) ==
  CHOOSE j \in 1..Len(refs) :
    IdOf(refs[j]) = n /\ \A k \in 1..(j - 1) : IdOf(refs[k]) # n

\* C16: given references of the forms "n", "#n" and a string containing
\* "/pull/n", the parser returns the number of a single reference, and for a
\* list the numbers named, each once, ordered by their first occurrence.
C16_ParserDedups ==
  (pc = "return" /\ probe.fn = "parse_pr_numbers" /\ BadRef \notin Range(probe.in)) =>
    LET refs == probe.in
        nums == probe.out
    IN /\ ~probe.raised
       /\ Len(refs) = 1 => nums = <<IdOf(refs[1])>>
       /\ {nums[j] : j \in 1..Len(nums)} = {IdOf(refs[j]) : j \in 1..Len(refs)}
       /\ \A i, j \in 1..Len(nums) :
            /\ nums[i] = nums[j] => i = j
            /\ i < j => FirstAt(refs, nums[i]) < FirstAt(refs, nums[j])

\* ["123", "#123"] was parsed to [123], and so was a list of MaxRefs
\* references in which a number is repeated after another one.
C16_Witness ==
  /\ pc = "return"
  /\ probe.fn = "parse_pr_numbers"
  /\ Len(probe.in) = MaxRefs
  /\ SubSeq(probe.in, 1, 2) = <<RefOf(123, 0), RefOf(123, 1)>>
  /\ probe.in[MaxRefs] = RefOf(12, 3)
  /\ probe.out = <<123, 12>>

\* ------------------------------------------------------------------ C17
\* The detector was applied to the answers of its searches.
Detected == pc = "return" /\ probe.fn = "find_backport_infos"

\* Everything the searches returned, in the order of the queries.
Returned3 == probe.in[1] \o probe.in[2] \o probe.in[3]

\* The candidates: for each number returned, the first pull request with it.
Candidates ==
  {Returned3[j] : j \in {k \in 1..Len(Returned3) :
                          \A e \in 1..(k - 1) : Returned3[e].number # Returned3[k].number}}

\* 1 for MERGED, 2 for OPEN, 3 for any other state.
StateClass(bp) == IF bp.state = "MERGED" THEN 1 ELSE IF bp.state = "OPEN" THEN 2 ELSE 3

\* C17: the detector's result holds every candidate that passed the local
\* filter, once, and nothing else; the MERGED ones come first, by merge
\* timestamp descending, then the OPEN ones, then those in any other state.
C17_DetectorOrder ==
  Detected =>
    LET bps == probe.out
        passed == {c \in Candidates : LocalMatch(c)}
    IN /\ {bps[j] : j \in 1..Len(bps)} = {BackportInfo(c) : c \in passed}
       /\ Len(bps) = Cardinality(passed)
       /\ \A i, j \in 1..Len(bps) :
            i < j =>
              /\ StateClass(bps[i]) <= StateClass(bps[j])
              /\ (StateClass(bps[i]) = 1 /\ StateClass(bps[j]) = 1)
                   => bps[i].merged_at >= bps[j].merged_at

\* The searches returned an OPEN, then an earlier-merged and then a
\* later-merged pull request; the result lists the later-merged one first and
\* the OPEN one last.
C17_Witness ==
  /\ Detected
  /\ probe.in = << <<BpOpen, BpMerged>>, <<BpLater>>, <<BpOpen>> >>
  /\ probe.out = <<BackportInfo(BpLater), BackportInfo(BpMerged), BackportInfo(BpOpen)>>

\* ------------------------------------------------------------------ C18
\* The pull requests returned that satisfy none of the local criteria.
Unmatched == {hit \in Range(Returned3) : hit.marks \cap {"ref", "url", "title", "paren"} = {}}

\* C18: a pull request returned by a search that matches none of the local
\* criteria is no part of the detector's result, whatever its state, and so
\* is none of the active candidates for which the source item is skipped;
\* when nothing returned matches, the result is empty and nothing is skipped.
C18_FilterAuthoritative ==
  Detected =>
    /\ \A hit \in Unmatched :
         /\ BackportInfo(hit) \notin Range(probe.out)
         /\ BackportInfo(hit) \notin Range(Active(probe.out))
    /\ Unmatched = Range(Returned3) => (probe.out = <<>> /\ Active(probe.out) = <<>>)

\* The searches returned an OPEN and a CLOSED pull request that match
\* nothing, and nothing else: the result is empty.
C18_Witness ==
  /\ Detected
  /\ Range(Returned3) = {BpNoise, BpOpenAgain}
  /\ probe.out = <<>>

\* ------------------------------------------------------------------ C19
\* C19: a run that ended on a failed cherry-pick issued nothing after it, and
\* the branch checked out is the one created for the failing item by the call
\* just before (it is neither reset nor switched away from).
C19_ConflictLeavesBranch ==
  (pc = "exit" /\ CherryPickFailed) =>
    LET last == Len(calls) IN
      /\ calls[last].op = "git cherry-pick"
      /\ ~calls[last].ok
      /\ calls[last - 1].op = "git checkout -B"
      /\ calls[last - 1].ok
      /\ calls[last - 1].pr = calls[last].pr
      /\ head_branch = calls[last].pr
      /\ head_branch = infos[idx].number

\* The cherry-pick failed on the second item, after a pull request had been
\* created from the branch of the first.
C19_Witness ==
  /\ pc = "exit"
  /\ CherryPickFailed
  /\ created # <<>>
  /\ head_branch # created[1][1]

\* ------------------------------------------------------------------ C20
IsCreation(call) == call.op = "gh pr create" /\ call.ok

\* C20: at every point of a run the list of created pull requests has one
\* (number, URL) entry for each creation call that succeeded so far, in the
\* order of the calls, which is the order of the queue; no number occurs
\* twice, and none is of an item that was skipped, whose pipeline failed or
\* was declined, or that is not yet processed.
C20_CreatedList ==
  LET creations == SelectSeq(calls, IsCreation) IN
    /\ Len(created) = Len(creations)
    /\ \A j \in 1..Len(created) :
         /\ created[j][1] = creations[j].pr
         /\ created[j][2][1] = "url"
         /\ ~HasLine("skipping", created[j][1])
         /\ \E k \in PosOf(created[j][1]) : k < idx
    /\ \A i, j \in 1..Len(created) :
         i < j => \A a \in PosOf(created[i][1]) : \A b \in PosOf(created[j][1]) : a < b

\* The run completed a queue of which it skipped one item and created the
\* pull request of another.
C20_Witness ==
  /\ exit_via = "return done"
  /\ Len(created) = 1
  /\ \E n \in After(0) : HasLine("skipping", n)

\* ------------------------------------------------------------------ C21
\* The URL that "git remote get-url" printed for the push remote (the second
\* of the two lookups), and the repository that URL names.
PushUrl ==
  LET j == CHOOSE k \in 2..Len(calls) :
             calls[k].op = "git remote get-url" /\ calls[k - 1].op = "git remote get-url"
  IN calls[j].msg
PushRepo == <<PushUrl[2], "/", PushUrl[4]>>

\* The head references that pull-request creation was or is about to be
\* called with, each with the number of its item.
CreationHeads ==
  {<<created[j][1], created[j][2][2]>> : j \in 1..Len(created)}
    \cup (IF pc = "create" THEN {<<infos[idx].number, head_ref>>} ELSE {})

\* C21 as stated: the head reference is "owner:branch" with the owner of the
\* push remote's repository whenever that repository is not the base
\* repository, and the bare branch name when it is.
C21_HeadQualifiedWhenReposDiffer ==
  \A h \in CreationHeads :
    h[2] = IF PushRepo # base_repo THEN <<PushRepo[1], ":">> \o Branch(h[1])
           ELSE Branch(h[1])

\* C21 as amended: the head reference is "owner:branch" whenever the push
\* remote's repository was determined from its URL and is not the base
\* repository; it is the bare branch name when the two are the same
\* repository, and also when the push remote's repository is not known.
C21_HeadQualifiedWhenKnownToDiffer ==
  \A h \in CreationHeads :
    h[2] = IF push_remote_repo # None /\ push_remote_repo # base_repo
             THEN <<push_remote_repo[1], ":">> \o Branch(h[1])
           ELSE Branch(h[1])

\* A pull request was created from the operator's fork with the head
\* reference "dev:<branch>".
C21_Witness ==
  /\ created # <<>>
  /\ PushRepo = ForkRepo
  /\ base_repo = UpstreamRepo
  /\ created[1][2][2] = <<"dev", ":">> \o Branch(created[1][1])

\* ------------------------------------------------------------------ C22
\* Call j - 1 is op, issued for the same item as call j, and ended as ok says.
Preceded(j, ops, ok) ==
  /\ j > 1
  /\ calls[j - 1].op \in ops
  /\ calls[j - 1].pr = calls[j].pr
  /\ calls[j - 1].ok = ok

\* C22: every call of a pipeline stage directly follows the successful call of
\* the stage before it for the same item -- the branch creation (after the
\* fetch of the release branch), then the cherry-pick, the push (forced after
\* the operator accepted a rejected one), the composition, the confirmation
\* and the creation; so a pull request is created only after, in that order,
\* the item's branch was created, its commit cherry-picked, its branch
\* pushed and the operator's confirmation given.
C22_StageOrder ==
  \A j \in 1..Len(calls) :
    LET op == calls[j].op IN
      /\ op = "git checkout -B" =>
           \E f \in 1..(j - 1) : calls[f].op = "git fetch" /\ calls[f].ok
      /\ op = "git cherry-pick" => Preceded(j, {"git checkout -B"}, TRUE)
      /\ op = "git push" => Preceded(j, {"git cherry-pick"}, TRUE)
      /\ op = "confirm force" =>
           Preceded(j, {"git push"}, FALSE) /\ Preceded(j - 1, {"git cherry-pick"}, TRUE)
      /\ op = "git push --force-with-lease" =>
           \/ Preceded(j, {"git cherry-pick"}, TRUE)
           \/ Preceded(j, {"confirm force"}, TRUE)
      /\ op = "git show" => Preceded(j, PushOps, TRUE)
      /\ op = "confirm create" => Preceded(j, {"git show"}, TRUE)
      /\ op = "gh pr create" =>
           /\ Preceded(j, {"confirm create"}, TRUE)
           /\ j > 5
           /\ calls[j - 2] = Call("git show", calls[j].pr, TRUE)
           /\ calls[j - 3].op \in PushOps /\ calls[j - 3].pr = calls[j].pr /\ calls[j - 3].ok
           /\ LET b == IF calls[j - 4].op = "confirm force" THEN j - 6 ELSE j - 4 IN
                /\ b > 1
                /\ calls[b] = Call("git cherry-pick", calls[j].pr, TRUE)
                /\ calls[b - 1] = Call("git checkout -B", calls[j].pr, TRUE)

\* A pull request was created for the second item of the queue, whose push
\* had been rejected and then forced.
C22_Witness ==
  /\ Len(created) = 2
  /\ \E j \in 1..Len(calls) :
       /\ calls[j].op = "confirm force"
       /\ calls[j].ok
       /\ calls[j].pr = created[2][1]

\* ------------------------------------------------------------------ C23
\* Call j belongs to the pipeline of an item (a stage or a prompt).
IsStage(j) == calls[j].op \in PipelineOps \cup PromptOps \cup {"git show"}

\* The position of pull request n in the queue.
QueuePos(n) == CHOOSE k \in 1..Len(infos) : infos[k].number = n

\* A pull request has been created for n / n has been skipped.
CreatedFor(n) == \E j \in 1..Len(created) : created[j][1] = n
Skipped(n) == HasLine("skipping", n)

\* C23: whenever a pipeline call has been issued for the item at a position
\* of the queue, every item before it has been created or skipped; the
\* pipeline calls of the run are in queue order, a call for another item
\* follows only a successful creation; and the only item whose pipeline has
\* begun and has not reached its creation is the one the loop stands at.
C23_OneAtATime ==
  /\ \A j \in 1..Len(calls) :
       IsStage(j) =>
         /\ \A m \in 1..(QueuePos(calls[j].pr) - 1) :
              CreatedFor(infos[m].number) \/ Skipped(infos[m].number)
         /\ (j < Len(calls) /\ calls[j + 1].pr # calls[j].pr) =>
              /\ IsCreation(calls[j])
              /\ QueuePos(calls[j].pr) < QueuePos(calls[j + 1].pr)
         /\ ~CreatedFor(calls[j].pr) => QueuePos(calls[j].pr) = idx
  /\ pc \in LoopPcs \ {"loop"} =>
       /\ ~CreatedFor(infos[idx].number)
       /\ ~Skipped(infos[idx].number)

\* The pull request of the first item was created, and the second item has
\* been cherry-picked and is at its push.
C23_Witness ==
  /\ pc = "push"
  /\ idx = 2
  /\ CreatedFor(infos[1].number)
  /\ calls[Len(calls)] = Call("git cherry-pick", infos[2].number, TRUE)

\* ------------------------------------------------------------------ C24
\* C24: a force-with-lease push is issued only with --force-push or directly
\* after the operator accepted the force prompt for that item; the prompt is
\* shown only without --force-push and directly after a plain push of the
\* item was rejected as non-fast-forward; a push that fails in any other way
\* (a forced one included) is the last call of the run, which ends with a
\* non-zero status; and no item is pushed more than twice.
C24_ForcePushAuthorized ==
  \A j \in 1..Len(calls) :
    /\ calls[j].op = "git push --force-with-lease" =>
         \/ args.force_push
         \/ Preceded(j, {"confirm force"}, TRUE)
    /\ calls[j].op = "confirm force" =>
         /\ ~args.force_push
         /\ Preceded(j, {"git push"}, FALSE)
         /\ calls[j - 1].msg = "non-fast-forward"
    /\ (calls[j].op \in PushOps /\ ~calls[j].ok
          /\ (calls[j].op = "git push --force-with-lease" \/ calls[j].msg # "non-fast-forward")) =>
         /\ j = Len(calls)
         /\ pc = "exit"
         /\ exit_status = <<1>>
    /\ calls[j].op \in PushOps =>
         \A k \in 1..(j - 3) : ~(calls[k].op \in PushOps /\ calls[k].pr = calls[j].pr)

\* The forced push that the operator had accepted failed, and the run ended
\* without a second prompt.
C24_Witness ==
  /\ pc = "exit"
  /\ Len(calls) > 2
  /\ calls[Len(calls)].op = "git push --force-with-lease"
  /\ ~calls[Len(calls)].ok
  /\ calls[Len(calls) - 1].op = "confirm force"
  /\ calls[Len(calls) - 1].ok

\* ------------------------------------------------------------------ C25
\* The number of searches run for pull request n.
SearchesFor(n) ==
  Cardinality({j \in 1..Len(calls) : calls[j].op = "gh pr list --search" /\ calls[j].pr = n})

\* Every search precedes every pipeline call, and once the loop is entered
\* the three searches of every item of the queue have been run and their
\* result is in backport_map.
DetectionPrecedesLoop ==
  /\ \A j \in 1..Len(calls) :
       calls[j].op = "gh pr list --search" => \A k \in 1..(j - 1) : ~IsStage(k)
  /\ (pc \in LoopPcs \/ created # <<>>) =>
       \A k \in 1..Len(infos) :
         /\ infos[k].number \in DOMAIN backport_map
         /\ SearchesFor(infos[k].number) = 3

\* A step taken inside the loop leaves the detection results as they are,
\* and an item is skipped in it exactly if those results hold an active
\* candidate for it.
LoopKeepsDetection ==
  pc \in LoopPcs =>
    /\ backport_map' = backport_map
    /\ (pc = "loop" /\ idx <= Len(infos)) =>
         ((\E j \in 1..Len(out') : out'[j] = Line("skipping", infos[idx].number))
            <=> Active(backport_map[infos[idx].number]) # <<>>)

\* C25: all searches of the detector, for every item of the queue, are run
\* before the first branch creation, and every skip decision is taken on
\* their results, which nothing that happens in the loop (a created pull
\* request included) changes.
C25_DetectionBeforeLoop == []DetectionPrecedesLoop /\ [][LoopKeepsDetection]_vars

\* After the pull request of the first item was created, the second item was
\* skipped on the candidates found before the loop.
C25_Witness ==
  /\ Len(created) = 1
  /\ idx = 3
  /\ created[1][1] = infos[1].number
  /\ Skipped(infos[2].number)

\* ------------------------------------------------------------------ C26
\* C26: no two pull-request creation calls of a run, failed ones included,
\* are for the same change request.
C26_OneCreationPerRequest ==
  \A j \in 1..Len(calls) :
    calls[j].op = "gh pr create" =>
      \A k \in 1..(j - 1) : ~(calls[k].op = "gh pr create" /\ calls[k].pr = calls[j].pr)

\* The command line named one change request twice, in two forms; the run
\* created its pull request and completed.
C26_Witness ==
  /\ Len(args.prs) = 2
  /\ ToInt(RefDigits(args.prs[1])) = ToInt(RefDigits(args.prs[2]))
  /\ Len(created) = 1
  /\ exit_via = "return done"

\* ------------------------------------------------------------------ C27
\* The ways a run ends: completed, conflict-aborted, user-aborted,
\* error-aborted.
Completed == exit_via \in {"return done", "return dry-run"}

ConflictAborted == exit_via = "return conflict"

UserAborted == exit_via = "return declined"

ErrorAborted == exit_via \in {"SystemExit", "RuntimeError"}

Terminal ==
  /\ pc = "exit"
  /\ exit_status # <<>>
  /\ Completed \/ ConflictAborted \/ UserAborted \/ ErrorAborted

\* A step of the loop stays on its item or moves on to the next one, and the
\* loop head is only ever re-entered with the next item.
VisitsOnce ==
  pc \in LoopPcs =>
    /\ idx' \in {idx, idx + 1}
    /\ pc' = "loop" <=> idx' = idx + 1
    /\ infos' = infos

\* C27: when every call returns and every prompt is answered, a run ends
\* in one of the terminal outcomes and stays there, and on the way the loop
\* takes up each item of the queue at most once.
C27_Terminates == <>[]Terminal /\ [][VisitsOnce]_vars

\* A run over a queue of two items has ended as completed with both items
\* taken up: the first skipped, the second given its pull request.
C27_Witness ==
  /\ Terminal
  /\ Completed
  /\ Len(infos) = 2
  /\ idx = 3
  /\ Skipped(infos[1].number)
  /\ CreatedFor(infos[2].number)

====
